---- MODULE Spec2Model ----
(***************************************************************************)
(* dicom2pdf (src/app.py): the image normaliser normalize_image and the    *)
(* conversion batch built around it (upload handler, convert_to_pdf).      *)
(*                                                                         *)
(* Numbers.  A float64 sample is a pair <<n, d>>: for d > 0 the reduced    *)
(* rational n/d, <<0, 0>> is NaN, <<1, 0>> is +inf and <<-1, 0>> is -inf.  *)
(* Arithmetic is exact (rounding of float64 is not modelled).  A value     *)
(* returned by np.power is a triple <<n, d, r>>, the real number           *)
(* (n/d)^(1/r), so that fractional exponents stay exact; comparisons of    *)
(* such values are decided by raising both sides to integer powers.        *)
(* A contrast factor is a pair <<p, q>>, the reduced rational p/q, q > 0.  *)
(***************************************************************************)
EXTENDS Integers, Sequences, FiniteSets, TLC

\* ---- bounds of the checked instances ----
MaxLen == 3        \* longest enumerated raw grid (flattened)
MaxVal == 2        \* largest enumerated raw sample; the smallest is -1
MaxFiles == 3      \* longest enumerated file tree

\* ---- program constants ----
LowPercent == 2
HighPercent == 98
PreviewCount == 10

VARIABLES
  \* normalize_image and its caller
  arg,          \* the caller's array object (contents)
  cf,           \* contrast_factor of the current call
  pc,           \* position in normalize_image
  image_array,  \* contents of the array the local name image_array is bound to
  alias,        \* TRUE while the local name is bound to the caller's object
  p2, p98, img_min, img_max,
  result,       \* the returned array
  raised,       \* the exception that left normalize_image, "" if none
  last,         \* <<[cf, result]>> of the previous completed call on arg, or <<>>
  \* upload handler and convert_to_pdf
  upload,       \* the uploaded archive, a record, or [ext |-> "none"]
  bpc,          \* position in the handler
  temp_dir,     \* TRUE while the temporary directory exists
  archive_written,
  tree,         \* files in the temporary directory, in rglob order
  dicom_files,  \* result of find_dicom_files
  idx,          \* loop index of convert_to_pdf (1-based)
  pages,        \* pages saved to the PDF: indices into dicom_files
  pdf_open,     \* TRUE while the PdfPages context is open
  conv_result,  \* what convert_to_pdf returned: "", "None", "output_pdf", "raised"
  shown         \* what the handler showed last

normvars == <<arg, cf, pc, image_array, alias, p2, p98, img_min, img_max, result, raised, last>>
batchvars == <<upload, bpc, temp_dir, archive_written, tree, dicom_files, idx, pages, pdf_open, conv_result, shown>>
vars == <<normvars, batchvars>>

\* ------------------------------------------------------------------------
\* exact arithmetic on float64 values
\* ------------------------------------------------------------------------
NaN == <<0, 0>>
None == <<>>

Abs(x) == IF x < 0 THEN -x ELSE x
Sign(x) == IF x < 0 THEN -1 ELSE IF x = 0 THEN 0 ELSE 1

RECURSIVE GCD(_, _)
GCD(a, b) == IF b = 0 THEN a ELSE GCD(b, a % b)

RECURSIVE IPow(_, _)
IPow(b, k) == IF k = 0 THEN 1 ELSE b * IPow(b, k - 1)

IsNaN(x) == x[1] = 0 /\ x[2] = 0
IsFinite(x) == x[2] # 0

\* the reduced form of n/d, d # 0
Rat(n, d) ==
  LET g == GCD(Abs(n), Abs(d))
      s == Sign(d)
  IN  <<(s * n) \div g, (s * d) \div g>>

Int2F(k) == <<k, 1>>

\* a < b, a <= b, a = b on finite values; any comparison with NaN is FALSE
CrossL(a, b) ==
  LET gn == GCD(Abs(a[1]), Abs(b[1]))
      gd == GCD(a[2], b[2])
  IN  IF gn = 0 THEN 0 ELSE (a[1] \div gn) * (b[2] \div gd)
CrossR(a, b) ==
  LET gn == GCD(Abs(a[1]), Abs(b[1]))
      gd == GCD(a[2], b[2])
  IN  IF gn = 0 THEN 0 ELSE (b[1] \div gn) * (a[2] \div gd)
FLt(a, b) == IsFinite(a) /\ IsFinite(b) /\ CrossL(a, b) < CrossR(a, b)
FLeq(a, b) == IsFinite(a) /\ IsFinite(b) /\ CrossL(a, b) <= CrossR(a, b)
FGt(a, b) == FLt(b, a)

FAdd(a, b) == IF IsFinite(a) /\ IsFinite(b)
              THEN Rat(a[1] * b[2] + b[1] * a[2], a[2] * b[2]) ELSE NaN
FSub(a, b) == IF IsFinite(a) /\ IsFinite(b)
              THEN Rat(a[1] * b[2] - b[1] * a[2], a[2] * b[2]) ELSE NaN
FMul(a, b) == IF IsFinite(a) /\ IsFinite(b)
              THEN Rat(a[1] * b[1], a[2] * b[2]) ELSE NaN
\* IEEE division: x/0 is +-inf for x # 0 and NaN for x = 0
FDiv(a, b) == IF ~(IsFinite(a) /\ IsFinite(b)) THEN NaN
              ELSE IF b[1] = 0 THEN <<Sign(a[1]), 0>>
              ELSE Rat(a[1] * b[2], a[2] * b[1])

HasNaN(a) == \E k \in DOMAIN a : ~IsFinite(a[k])

RECURSIVE Insert(_, _)
Insert(x, s) ==
  IF s = <<>> THEN <<x>>
  ELSE IF FLeq(x, Head(s)) THEN <<x>> \o s
  ELSE <<Head(s)>> \o Insert(x, Tail(s))

RECURSIVE SortAsc(_)
SortAsc(s) == IF s = <<>> THEN <<>> ELSE Insert(Head(s), SortAsc(Tail(s)))

\* ------------------------------------------------------------------------
\* numpy operations used by normalize_image
\* ------------------------------------------------------------------------

\* ndarray.astype(np.float64): a newly allocated array holding every sample
\* converted to float64 (value-preserving for the samples enumerated here)
astype_float64(a) == [k \in DOMAIN a |-> IF IsFinite(a[k]) THEN Rat(a[k][1], a[k][2]) ELSE a[k]]

\* np.percentile(a, q), method "linear", a non-empty: the virtual index is
\* (n-1)*q/100, the result interpolates between the two closest ranks of the
\* sorted samples; NaN if any sample is NaN
LerpLower(lo, hi, t) == lo
Lerp(lo, hi, t) == FAdd(lo, FMul(FSub(hi, lo), t))
Percentile(a, q) ==
  IF HasNaN(a) THEN NaN
  ELSE LET s == SortAsc(a)
           n == Len(a)
           pos == q * (n - 1)
           lo == pos \div 100
           hi == IF lo + 1 > n - 1 THEN n - 1 ELSE lo + 1
       IN  Lerp(s[lo + 1], s[hi + 1], Rat(pos % 100, 100))

\* np.clip(a, lo, hi) == np.minimum(np.maximum(a, lo), hi), NaN propagating
FMax(x, y) == IF ~IsFinite(x) \/ ~IsFinite(y) THEN NaN ELSE IF FLt(x, y) THEN y ELSE x
FMin(x, y) == IF ~IsFinite(x) \/ ~IsFinite(y) THEN NaN ELSE IF FLt(y, x) THEN y ELSE x
ClipUpperOnly(a, lo, hi) == [k \in DOMAIN a |-> FMin(a[k], hi)]
Clip(a, lo, hi) == [k \in DOMAIN a |-> FMin(FMax(a[k], lo), hi)]

\* np.min / np.max of a non-empty array, NaN propagating
RECURSIVE FoldMin(_)
FoldMin(a) == IF Len(a) = 1 THEN a[1] ELSE FMin(a[1], FoldMin(Tail(a)))
RECURSIVE FoldMax(_)
FoldMax(a) == IF Len(a) = 1 THEN a[1] ELSE FMax(a[1], FoldMax(Tail(a)))
np_min(a) == FoldMin(a)
np_max(a) == FoldMax(a)

\* line 46: if img_max > img_min
RangeGuardGeq(mx, mn) == FLeq(mn, mx)
RangeGuard(mx, mn) == FGt(mx, mn)

\* line 47: (image_array - img_min) / (img_max - img_min)
RescaleNoOffset(a, mn, mx) == [k \in DOMAIN a |-> FDiv(a[k], FSub(mx, mn))]
Rescale(a, mn, mx) == [k \in DOMAIN a |-> FDiv(FSub(a[k], mn), FSub(mx, mn))]

\* np.power(x, p/q) for one sample, as the triple <<n, d, r>> = (n/d)^(1/r):
\* x**0 is 1 for every x (NaN included); NaN otherwise propagates; 0 to a
\* negative power is +inf; a negative base to a non-integer power is NaN
PNaN == <<0, 0, 1>>
PInf == <<1, 0, 1>>
PowElem(x, e) ==
  LET p == e[1]
      q == e[2]
  IN  IF p = 0 THEN <<1, 1, 1>>
      ELSE IF IsNaN(x) THEN PNaN
      ELSE IF ~IsFinite(x) THEN (IF p > 0 THEN PInf ELSE <<0, 1, 1>>)
      ELSE IF x[1] = 0 THEN (IF p > 0 THEN <<0, 1, 1>> ELSE PInf)
      ELSE IF x[1] < 0 /\ q > 1 THEN PNaN
      ELSE LET b == IF p > 0 THEN x ELSE Rat(x[2], x[1])
           IN  <<IPow(b[1], Abs(p)), IPow(b[2], Abs(p)), q>>
np_power(a, e) == [k \in DOMAIN a |-> PowElem(a[k], e)]

\* order on np.power values; FALSE when either side is NaN or infinite
PFinite(v) == v[2] # 0
LCM(a, b) == (a * b) \div GCD(a, b)
PRaise(v, k) == <<IPow(v[1], k), IPow(v[2], k)>>
PLeq(u, v) ==
  /\ PFinite(u) /\ PFinite(v)
  /\ IF u[1] < 0 /\ v[1] >= 0 THEN TRUE
     ELSE IF u[1] >= 0 /\ v[1] < 0 THEN FALSE
     ELSE IF u[1] < 0 THEN FLeq(<<u[1], u[2]>>, <<v[1], v[2]>>)
     ELSE LET l == LCM(u[3], v[3])
          IN  FLeq(PRaise(u, l \div u[3]), PRaise(v, l \div v[3]))
PLt(u, v) == PLeq(u, v) /\ ~PLeq(v, u)
PEq(u, v) == PLeq(u, v) /\ PLeq(v, u)
PZero == <<0, 1, 1>>
POne == <<1, 1, 1>>
F2P(x) == <<x[1], x[2], 1>>

\* ------------------------------------------------------------------------
\* inputs of normalize_image
\* ------------------------------------------------------------------------
RawSamples == {NaN} \cup {Int2F(k) : k \in -1..MaxVal}
ExampleGrid == <<Int2F(0), Int2F(0), Int2F(0), Int2F(0), Int2F(100),
                 Int2F(0), Int2F(0), Int2F(0), Int2F(0)>>
RawGrids == UNION {[1..n -> RawSamples] : n \in 0..MaxLen} \cup {ExampleGrid}
ContrastFactors == {<<-1, 1>>, <<0, 1>>, <<1, 2>>, <<1, 1>>, <<3, 2>>}
Positive(e) == e[1] > 0
ELt(e, f) == e[1] * f[2] < f[1] * e[2]

\* ------------------------------------------------------------------------
\* normalize_image, statement by statement
\* ------------------------------------------------------------------------

\* Every statement of normalize_image binds the local name to the newly
\* allocated array its right-hand side returns; the object the caller passed
\* is never written.
InPlaceArray(a, al, new) ==
  [arg |-> IF al THEN new ELSE a, image_array |-> new, alias |-> al]
NewArray(a, al, new) ==
  [arg |-> a, image_array |-> new, alias |-> FALSE]

Bind(new) ==
  LET b == NewArray(arg, alias, new)
  IN  /\ arg' = b.arg
      /\ image_array' = b.image_array
      /\ alias' = b.alias

\* the caller passes its array by reference
Call ==
  /\ pc = "idle"
  /\ \E e \in ContrastFactors : cf' = e
  /\ pc' = "l41"
  /\ image_array' = arg
  /\ alias' = TRUE
  /\ p2' = NaN /\ p98' = NaN /\ img_min' = NaN /\ img_max' = NaN
  /\ result' = None
  /\ raised' = ""
  /\ UNCHANGED <<arg, last>>
  /\ UNCHANGED batchvars

AsType ==
  /\ pc = "l41"
  /\ Bind(astype_float64(image_array))
  /\ pc' = "l42"
  /\ UNCHANGED <<cf, p2, p98, img_min, img_max, result, raised, last>>
  /\ UNCHANGED batchvars

\* line 42 on a zero-size array: depending on the numpy release the call
\* raises IndexError or returns NaN for both percentiles
PercentileEmpty ==
  /\ pc = "l42"
  /\ Len(image_array) = 0
  /\ \/ /\ pc' = "raised" /\ raised' = "IndexError"
        /\ UNCHANGED <<p2, p98>>
     \/ /\ pc' = "l43" /\ p2' = NaN /\ p98' = NaN
        /\ UNCHANGED raised
  /\ UNCHANGED <<arg, cf, image_array, alias, img_min, img_max, result, last>>
  /\ UNCHANGED batchvars

Percentiles ==
  /\ pc = "l42"
  /\ Len(image_array) > 0
  /\ p2' = Percentile(image_array, LowPercent)
  /\ p98' = Percentile(image_array, HighPercent)
  /\ pc' = "l43"
  /\ UNCHANGED <<arg, cf, image_array, alias, img_min, img_max, result, raised, last>>
  /\ UNCHANGED batchvars

ClipStep ==
  /\ pc = "l43"
  /\ Bind(Clip(image_array, p2, p98))
  /\ pc' = "l44"
  /\ UNCHANGED <<cf, p2, p98, img_min, img_max, result, raised, last>>
  /\ UNCHANGED batchvars

\* lines 44-45; np.min of a zero-size array raises ValueError
MinMaxEmpty ==
  /\ pc = "l44"
  /\ Len(image_array) = 0
  /\ pc' = "raised" /\ raised' = "ValueError"
  /\ UNCHANGED <<arg, cf, image_array, alias, p2, p98, img_min, img_max, result, last>>
  /\ UNCHANGED batchvars

MinMax ==
  /\ pc = "l44"
  /\ Len(image_array) > 0
  /\ img_min' = np_min(image_array)
  /\ img_max' = np_max(image_array)
  /\ pc' = "l46"
  /\ UNCHANGED <<arg, cf, image_array, alias, p2, p98, result, raised, last>>
  /\ UNCHANGED batchvars

RescaleStep ==
  /\ pc = "l46"
  /\ RangeGuard(img_max, img_min)
  /\ Bind(Rescale(image_array, img_min, img_max))
  /\ pc' = "l48"
  /\ UNCHANGED <<cf, p2, p98, img_min, img_max, result, raised, last>>
  /\ UNCHANGED batchvars

SkipRescale ==
  /\ pc = "l46"
  /\ ~RangeGuard(img_max, img_min)
  /\ pc' = "l48"
  /\ UNCHANGED <<arg, cf, image_array, alias, p2, p98, img_min, img_max, result, raised, last>>
  /\ UNCHANGED batchvars

PowerReturn ==
  /\ pc = "l48"
  /\ result' = np_power(image_array, cf)
  /\ pc' = "returned"
  /\ UNCHANGED <<arg, cf, image_array, alias, p2, p98, img_min, img_max, raised, last>>
  /\ UNCHANGED batchvars

\* the caller takes the outcome; a later call may follow on the same array
Finish ==
  /\ pc \in {"returned", "raised"}
  /\ last' = IF pc = "returned" THEN <<[cf |-> cf, result |-> result]>> ELSE last
  /\ pc' = "idle"
  /\ UNCHANGED <<arg, cf, image_array, alias, p2, p98, img_min, img_max, result, raised>>
  /\ UNCHANGED batchvars

NormInit ==
  /\ arg \in RawGrids
  /\ cf = <<1, 1>>
  /\ pc = "idle"
  /\ image_array = None
  /\ alias = FALSE
  /\ p2 = NaN /\ p98 = NaN /\ img_min = NaN /\ img_max = NaN
  /\ result = None
  /\ raised = ""
  /\ last = <<>>

NormOff ==
  /\ arg = None
  /\ cf = <<1, 1>>
  /\ pc = "off"
  /\ image_array = None
  /\ alias = FALSE
  /\ p2 = NaN /\ p98 = NaN /\ img_min = NaN /\ img_max = NaN
  /\ result = None
  /\ raised = ""
  /\ last = <<>>

\* ------------------------------------------------------------------------
\* the upload handler (lines 135-163) and convert_to_pdf (lines 63-90)
\* ------------------------------------------------------------------------

\* A file of the extracted tree is one of
\*   "other"    not found by find_dicom_files (suffix or header probe fails)
\*   "nopixels" found, but read_dicom_image returns (None, None)
\*   "image"    found, decoded, normalised and rendered
\*   "badshape" found and decoded, but normalize_image or the renderer raises
\*              on the array (zero-size or multi-frame pixel data)
Kinds == {"other", "nopixels", "image", "badshape"}
LongTree == [k \in 1..(PreviewCount + 1) |-> IF k = 2 THEN "badshape"
                                           ELSE IF k = 4 THEN "nopixels" ELSE "image"]
Trees == UNION {[1..n -> Kinds] : n \in 0..MaxFiles} \cup {LongTree}
Uploads ==
  {[ext |-> "none"]}
    \cup [ext : {"zip", "rar", "iso", "ZIP"}, corrupt : BOOLEAN, files : Trees]

IsDicom(kind) == kind # "other"
find_dicom_files(t) == SelectSeq(t, IsDicom)

\* read_dicom_image: TRUE when an array is returned, FALSE for (None, None)
Decodes(kind) == kind \in {"image", "badshape"}
\* lines 74-87 (and 150-151) complete without raising
Renders(kind) == kind = "image"

\* extract_archive: zipfile raises BadZipFile on a corrupt .zip
ExtractFails(u) == u.ext = "zip" /\ u.corrupt
\* extract_archive: what is in the directory afterwards.  unrar and 7z run
\* with check=False, so their failure leaves the directory empty; a name that
\* ends in none of the three suffixes is not extracted at all
Extracted(u) ==
  IF u.ext \in {"zip", "rar", "iso"} /\ ~u.corrupt THEN u.files ELSE <<>>

\* leaving "with tempfile.TemporaryDirectory()": the directory is removed
\* whether the block ends normally or by an exception
TempDirKeptOnError(exc) == exc
TempDirAfterExit(exc) == FALSE

\* line 72: continue with the next file
BreakAfterSkip(i, n) == n + 1
NextAfterSkip(i, n) == i + 1

Min2(a, b) == IF a < b THEN a ELSE b

Propagate ==
  /\ temp_dir' = TempDirAfterExit(TRUE)
  /\ bpc' = "failed"

NoUpload ==
  /\ bpc = "start"
  /\ upload.ext = "none"
  /\ shown' = "info"
  /\ bpc' = "done"
  /\ UNCHANGED <<upload, temp_dir, archive_written, tree, dicom_files, idx, pages, pdf_open, conv_result>>
  /\ UNCHANGED normvars

EnterTempDir ==
  /\ bpc = "start"
  /\ upload.ext # "none"
  /\ temp_dir' = TRUE
  /\ bpc' = "write"
  /\ UNCHANGED <<upload, archive_written, tree, dicom_files, idx, pages, pdf_open, conv_result, shown>>
  /\ UNCHANGED normvars

WriteArchive ==
  /\ bpc = "write"
  /\ archive_written' = TRUE
  /\ bpc' = "extract"
  /\ UNCHANGED <<upload, temp_dir, tree, dicom_files, idx, pages, pdf_open, conv_result, shown>>
  /\ UNCHANGED normvars

ExtractArchive ==
  /\ bpc = "extract"
  /\ ~ExtractFails(upload)
  /\ tree' = Extracted(upload)
  /\ bpc' = "find"
  /\ UNCHANGED <<upload, temp_dir, archive_written, dicom_files, idx, pages, pdf_open, conv_result, shown>>
  /\ UNCHANGED normvars

ExtractRaises ==
  /\ bpc = "extract"
  /\ ExtractFails(upload)
  /\ Propagate
  /\ UNCHANGED <<upload, archive_written, tree, dicom_files, idx, pages, pdf_open, conv_result, shown>>
  /\ UNCHANGED normvars

FindDicomFiles ==
  /\ bpc = "find"
  /\ dicom_files' = find_dicom_files(tree)
  /\ bpc' = "preview"
  /\ UNCHANGED <<upload, temp_dir, archive_written, tree, idx, pages, pdf_open, conv_result, shown>>
  /\ UNCHANGED normvars

\* lines 144-151: random.sample picks min(10, len) files; each one that
\* decodes is normalised and shown
PreviewSamples ==
  {S \in SUBSET (1..Len(dicom_files)) :
     Cardinality(S) = Min2(PreviewCount, Len(dicom_files))}

Preview ==
  /\ bpc = "preview"
  /\ \E S \in PreviewSamples :
       /\ \A k \in S : Decodes(dicom_files[k]) => Renders(dicom_files[k])
       /\ shown' = IF \E k \in S : Decodes(dicom_files[k]) THEN "preview" ELSE shown
  /\ bpc' = "convert"
  /\ UNCHANGED <<upload, temp_dir, archive_written, tree, dicom_files, idx, pages, pdf_open, conv_result>>
  /\ UNCHANGED normvars

PreviewRaises ==
  /\ bpc = "preview"
  /\ \E S \in PreviewSamples :
       \E k \in S : Decodes(dicom_files[k]) /\ ~Renders(dicom_files[k])
  /\ Propagate
  /\ UNCHANGED <<upload, archive_written, tree, dicom_files, idx, pages, pdf_open, conv_result, shown>>
  /\ UNCHANGED normvars

\* convert_to_pdf, lines 64-66: nothing found
ConvertNothing ==
  /\ bpc = "convert"
  /\ find_dicom_files(tree) = <<>>
  /\ conv_result' = "None"
  /\ bpc' = "after"
  /\ UNCHANGED <<upload, temp_dir, archive_written, tree, dicom_files, idx, pages, pdf_open, shown>>
  /\ UNCHANGED normvars

\* lines 64, 68: the PDF is opened
ConvertOpen ==
  /\ bpc = "convert"
  /\ find_dicom_files(tree) # <<>>
  /\ dicom_files' = find_dicom_files(tree)
  /\ pdf_open' = TRUE
  /\ idx' = 1
  /\ pages' = <<>>
  /\ bpc' = "loop"
  /\ UNCHANGED <<upload, temp_dir, archive_written, tree, conv_result, shown>>
  /\ UNCHANGED normvars

\* lines 70-72: the file does not decode
ConvertSkip ==
  /\ bpc = "loop"
  /\ idx <= Len(dicom_files)
  /\ ~Decodes(dicom_files[idx])
  /\ idx' = NextAfterSkip(idx, Len(dicom_files))
  /\ UNCHANGED <<upload, bpc, temp_dir, archive_written, tree, dicom_files, pages, pdf_open, conv_result, shown>>
  /\ UNCHANGED normvars

\* lines 70-88: one page is saved
ConvertPage ==
  /\ bpc = "loop"
  /\ idx <= Len(dicom_files)
  /\ Decodes(dicom_files[idx]) /\ Renders(dicom_files[idx])
  /\ pages' = Append(pages, idx)
  /\ idx' = idx + 1
  /\ UNCHANGED <<upload, bpc, temp_dir, archive_written, tree, dicom_files, pdf_open, conv_result, shown>>
  /\ UNCHANGED normvars

\* lines 74-87 raise: PdfPages closes, the exception leaves convert_to_pdf
\* and the handler
ConvertRaises ==
  /\ bpc = "loop"
  /\ idx <= Len(dicom_files)
  /\ Decodes(dicom_files[idx]) /\ ~Renders(dicom_files[idx])
  /\ pdf_open' = FALSE
  /\ conv_result' = "raised"
  /\ Propagate
  /\ UNCHANGED <<upload, archive_written, tree, dicom_files, idx, pages, shown>>
  /\ UNCHANGED normvars

\* line 90
ConvertReturn ==
  /\ bpc = "loop"
  /\ idx > Len(dicom_files)
  /\ pdf_open' = FALSE
  /\ conv_result' = "output_pdf"
  /\ bpc' = "after"
  /\ UNCHANGED <<upload, temp_dir, archive_written, tree, dicom_files, idx, pages, shown>>
  /\ UNCHANGED normvars

\* lines 156-161, then the end of the with block.  Whether PdfPages leaves a
\* file when no page was saved depends on the matplotlib release.
ShowResult ==
  /\ bpc = "after"
  /\ \E exists \in (IF conv_result = "output_pdf" /\ pages = <<>> THEN BOOLEAN
                    ELSE {conv_result = "output_pdf"}) :
       shown' = IF conv_result = "output_pdf" /\ exists THEN "success" ELSE "error"
  /\ temp_dir' = TempDirAfterExit(FALSE)
  /\ bpc' = "done"
  /\ UNCHANGED <<upload, archive_written, tree, dicom_files, idx, pages, pdf_open, conv_result>>
  /\ UNCHANGED normvars

BatchInit ==
  /\ upload \in Uploads
  /\ bpc = "start"
  /\ temp_dir = FALSE
  /\ archive_written = FALSE
  /\ tree = <<>>
  /\ dicom_files = <<>>
  /\ idx = 1
  /\ pages = <<>>
  /\ pdf_open = FALSE
  /\ conv_result = ""
  /\ shown = ""

BatchOff ==
  /\ upload = [ext |-> "none"]
  /\ bpc = "off"
  /\ temp_dir = FALSE
  /\ archive_written = FALSE
  /\ tree = <<>>
  /\ dicom_files = <<>>
  /\ idx = 1
  /\ pages = <<>>
  /\ pdf_open = FALSE
  /\ conv_result = ""
  /\ shown = ""

\* normalize_image called on enumerated grids
Init == NormInit /\ BatchOff
Next ==
  \/ Call \/ AsType \/ PercentileEmpty \/ Percentiles \/ ClipStep
  \/ MinMaxEmpty \/ MinMax \/ RescaleStep \/ SkipRescale \/ PowerReturn \/ Finish
Spec == Init /\ [][Next]_vars

\* one run of the upload handler on an enumerated archive
InitBatch == NormOff /\ BatchInit
NextBatch ==
  \/ NoUpload \/ EnterTempDir \/ WriteArchive \/ ExtractArchive \/ ExtractRaises
  \/ FindDicomFiles \/ Preview \/ PreviewRaises
  \/ ConvertNothing \/ ConvertOpen \/ ConvertSkip \/ ConvertPage
  \/ ConvertRaises \/ ConvertReturn \/ ShowResult
SpecBatch == InitBatch /\ [][NextBatch]_vars

\* ------------------------------------------------------------------------
\* properties of normalize_image
\* ------------------------------------------------------------------------
AtReturn == pc = "returned"
HasFinite(a) == \E k \in DOMAIN a : IsFinite(a[k])
AllFinite(a) == \A k \in DOMAIN a : IsFinite(a[k])
InUnit(v) == PFinite(v) /\ PLeq(PZero, v) /\ PLeq(v, POne)
Interior(v) == PLt(PZero, v) /\ PLt(v, POne)
InvalidInput(a, e) == Len(a) = 0 \/ ~HasFinite(a) \/ ~Positive(e)
ExampleCall == arg = ExampleGrid /\ cf = <<1, 1>> /\ AtReturn

\* C1: for a raw grid with at least one finite value and contrast_exponent > 0
\* the returned grid has no NaN entry and every entry lies in [0,1], on the
\* rescaling path and on the degenerate path.
C1_UnitRangeAlways ==
  (AtReturn /\ Positive(cf) /\ HasFinite(arg))
    => \A k \in DOMAIN result : InUnit(result[k])

\* C2: an empty grid, a grid of only non-finite values or contrast_exponent <= 0
\* makes normalize_image fail with InvalidInput; no grid is returned.
C2_InvalidInputRejected ==
  InvalidInput(arg, cf)
    => /\ pc # "returned"
       /\ pc = "raised" => raised = "InvalidInput"

\* C3 as stated: on the grid [[0,0,0],[0,100,0],[0,0,0]] with exponent 1 both
\* percentiles are 0, the degenerate path is taken and the all-zero grid is
\* returned.
C3_ExampleAllZero ==
  ExampleCall
    => /\ p2 = Int2F(0) /\ p98 = Int2F(0)
       /\ ~FGt(img_max, img_min)
       /\ result = [k \in 1..9 |-> PZero]

\* C3 amended: on that grid the 2nd percentile is 0 and the 98th is 84, the
\* rescaling path is taken and the result is 1 at the centre, 0 elsewhere.
C3_ExampleCentreOne ==
  ExampleCall
    => /\ p2 = Int2F(0) /\ p98 = Int2F(84)
       /\ img_min = Int2F(0) /\ img_max = Int2F(84)
       /\ FGt(img_max, img_min)
       /\ result = [k \in 1..9 |-> IF k = 5 THEN POne ELSE PZero]
C3_Witness == ExampleCall /\ Len(result) = 9

\* C4: on the rescaling path (max > min after clipping) with exponent > 0
\* every returned value lies in [0,1], the smallest is 0 and the largest 1.
C4_RescaledSpansUnit ==
  (AtReturn /\ Positive(cf) /\ FGt(img_max, img_min))
    => /\ \A k \in DOMAIN result : InUnit(result[k])
       /\ \E k \in DOMAIN result : PEq(result[k], PZero)
       /\ \E k \in DOMAIN result : PEq(result[k], POne)
C4_Witness ==
  /\ AtReturn /\ cf = <<3, 2>> /\ FGt(img_max, img_min)
  /\ \E k \in DOMAIN result : Interior(result[k])

GammaOfFlat(c, e) ==
  IF c[1] < 0 /\ e[2] > 1 THEN PNaN
  ELSE <<IPow(c[1], e[1]), IPow(c[2], e[1]), IF c[1] = 0 THEN 1 ELSE e[2]>>
C7_GammaMonotone ==
  (AtReturn /\ Len(last) = 1 /\ Positive(last[1].cf) /\ ELt(last[1].cf, cf))
    => \A k \in DOMAIN result :
         /\ PLeq(result[k], last[1].result[k])
         /\ Interior(F2P(image_array[k])) => PLt(result[k], last[1].result[k])
         /\ (image_array[k] = Int2F(0) \/ image_array[k] = Int2F(1))
              => PEq(result[k], last[1].result[k])

C10_MinMaxArePercentiles ==
  (pc \in {"l46", "l48", "returned"} /\ Len(arg) > 0 /\ AllFinite(arg))
    => /\ img_min = p2 /\ img_max = p98
       /\ FLeq(p2, p98)
       /\ FGt(img_max, img_min) <=> p2 # p98
       /\ (pc = "l46" /\ ENABLED SkipRescale) <=> (pc = "l46" /\ p2 = p98)
C10_Witness ==
  /\ pc = "l46" /\ Len(arg) > 0 /\ AllFinite(arg)
  /\ FLt(np_min(arg), p2) /\ FLt(p98, np_max(arg))

\* ------------------------------------------------------------------------
\* properties of the conversion batch
\* ------------------------------------------------------------------------
RECURSIVE DecodedUpTo(_, _)
DecodedUpTo(f, n) ==
  IF n = 0 THEN <<>>
  ELSE IF f[n] \in {"image", "badshape"} THEN Append(DecodedUpTo(f, n - 1), n)
  ELSE DecodedUpTo(f, n - 1)

\* C6 as stated: when convert_to_pdf is over the PDF holds exactly one page for
\* each discovered file whose decode succeeds, in discovery order.
C6_PagePerDecodedFile ==
  conv_result \in {"output_pdf", "raised"}
    => pages = DecodedUpTo(dicom_files, Len(dicom_files))

\* C6 amended: pages are, in discovery order, the decoded files before the
\* loop position; the loop is left early only at a decoded file whose
\* normalisation or rendering raises, never at a file whose decode fails; a
\* normal return has a page for every decoded file.
C6_PagePerDecodedFileUntilRaise ==
  /\ bpc = "loop" => pages = DecodedUpTo(dicom_files, idx - 1)
  /\ conv_result = "output_pdf"
       => pages = DecodedUpTo(dicom_files, Len(dicom_files))
  /\ conv_result = "raised"
       => /\ pages = DecodedUpTo(dicom_files, idx - 1)
          /\ idx <= Len(dicom_files)
          /\ dicom_files[idx] = "badshape"
  /\ conv_result = "None" => (pages = <<>> /\ find_dicom_files(tree) = <<>>)
C6_Witness ==
  /\ conv_result = "output_pdf"
  /\ \E j \in DOMAIN dicom_files : \E k \in DOMAIN dicom_files :
       /\ j < k /\ dicom_files[j] = "nopixels"
       /\ \E m \in DOMAIN pages : pages[m] = k

\* C9: the temporary directory exists from before the archive is written
\* until the handler is left, and is gone when the handler is left: after the
\* PDF was produced, after nothing was found, and after an exception.
C9_TempDirScoped ==
  /\ bpc \in {"write", "extract", "find", "preview", "convert", "loop", "after"} => temp_dir
  /\ ~temp_dir => (bpc \in {"start", "done", "failed"})
  /\ bpc = "start" => (~archive_written /\ tree = <<>>)
  /\ bpc \in {"done", "failed"} => ~temp_dir
C9_Witness ==
  /\ bpc = "failed" /\ conv_result = "raised" /\ archive_written /\ ~temp_dir

====
